---- MODULE Spec2Model ----
(***************************************************************************)
(* Knowledge-graph builder (saipanyam/buildathon-project5).                *)
(*                                                                         *)
(* The graph lives in a Neo4j store shared by every command process.  One  *)
(* Cypher statement (one session.run) is one atomic step of the store; a   *)
(* command is a sequence of such steps, and the HTTP front end starts      *)
(* commands as independent processes, so the steps of different commands   *)
(* interleave freely.                                                      *)
(*                                                                         *)
(*   Spec        knowledge-graph.js run from a terminal: one command after *)
(*               the other, every reply of the collaborators.              *)
(*   SpecServer  the same commands started by the HTTP front end           *)
(*               (unnamed/part_003): two processes at a time.              *)
(*   SpecCLI     the size-tracking KnowledgeGraphCLI object                *)
(*               (unnamed/part_002), its methods called one after another. *)
(***************************************************************************)
EXTENDS Integers, Sequences, FiniteSets, TLC

(***************************************************************************)
(* Bounds of the model.                                                    *)
(***************************************************************************)
MaxItems == 2       \* sources ingested in one behaviour
MaxClears == 1      \* clear commands of one behaviour
MaxCand == 2        \* candidates returned by one extraction
MaxFreq == 2        \* largest occurrence count of a candidate in one document
MaxRels == 1        \* explicit relationships returned by the enrichment call
MaxClock == 1       \* distinct clock readings (Date.now()) after the first
MaxCeiling == 1     \* the configured size ceiling MAX_FILE_SIZE_MB, in size units

Procs == {1, 2}
Names == {"a", "b"}
Kinds == {"file", "url"}

(***************************************************************************)
(* Values of the store.                                                    *)
(***************************************************************************)
\* entity.frequency of an entity returned by the enrichment call: absent.
undefined == 0
\* Math.min(undefined, undefined): not a number; NaN + w = NaN.
NaN == -1

Concept(n) == <<"Concept", n>>
Entity(n) == <<"Entity", n>>
EmptyFn == [x \in {} |-> 0]

Add(x, y) == IF x = NaN \/ y = NaN THEN NaN ELSE x + y
MathMin(x, y) ==
  IF x = undefined \/ y = undefined THEN NaN
  ELSE IF x < y THEN x ELSE y
\* entity.frequency || 1
FrequencyOr1(f) == IF f = undefined THEN 1 ELSE f

VARIABLES
  docs,        \* Document nodes: id -> [size, content]
  freq,        \* Concept/Entity nodes: <<label, name>> -> frequency
  contains,    \* CONTAINS edges: <<doc id, node>> -> sequence of edge weights
  rels,        \* edges between nodes: <<from, to, type>> -> [weight, confidence]
  clock,       \* last value returned by Date.now()
  pc,          \* position of each process
  batch,       \* ingest command: the sources not yet attempted
  clearOpt,    \* ingest command: --clear
  isFirstItem, \* ingest command: isFirstItem
  cur,         \* the ingestion running in each process
  totalSize,   \* KnowledgeGraphCLI.totalSize
  started,     \* sources handed to ingestions so far
  clears,      \* clear commands started so far
  completed,   \* ids of the documents whose ingestion returned success
  ntype,       \* Entity nodes: <<label, name>> -> e.type
  community,   \* labelled nodes: <<label, name>> -> e.community
  run,         \* ingest command: its sources, those attempted, their outcomes
  qry,         \* the query or community detection running in each process
  text,        \* extractConcepts: the tokens of the text handed to it
  concepts,    \* extractConcepts: what it returned
  sentences,   \* part_002 queryGraph: the sentences of the documents found
  bestAnswer,  \* part_002 queryGraph: the excerpt chosen
  matches,     \* localSearch: the documents linked to the matched nodes
  rows         \* localSearch: the records its document statement returned

graphVars == <<docs, freq, contains, rels, ntype, community>>
\* The arguments and results of the functions checked on their own.
extractVars == <<text, concepts>>
excerptVars == <<sentences, bestAnswer>>
rankVars == <<matches, rows>>
fnVars == <<extractVars, excerptVars, rankVars>>
storeVars == <<graphVars, clock, pc, batch, clearOpt, isFirstItem, cur, totalSize, started,
               clears, completed, run, qry>>
vars == <<storeVars, fnVars>>

(***************************************************************************)
(* The statements sent to the store.                                       *)
(***************************************************************************)
\* MERGE (n:Label {name}) ON CREATE SET n.frequency = $frequency
\*                        ON MATCH SET n.frequency = n.frequency + $frequency
MergeNode(f, node, frequency) ==
  IF node \in DOMAIN f THEN [f EXCEPT ![node] = @ + frequency]
  ELSE f @@ (node :> frequency)

\* MATCH (d:Document {id}), (n:Label {name}) CREATE (d)-[:CONTAINS {frequency}]->(n)
CreateContains(c, d, f, docId, node, w) ==
  IF docId \in DOMAIN d /\ node \in DOMAIN f
  THEN IF <<docId, node>> \in DOMAIN c
       THEN [c EXCEPT ![<<docId, node>>] = Append(@, w)]
       ELSE c @@ (<<docId, node>> :> <<w>>)
  ELSE c

\* The RELATED_TO edges between two nodes, in either direction.
RelatedBetween(r, x, y) ==
  {e \in DOMAIN r : e[3] = "RELATED_TO" /\ ((e[1] = x /\ e[2] = y) \/ (e[1] = y /\ e[2] = x))}

\* MATCH (c1:Concept {name1}), (c2:Concept {name2}) MERGE (c1)-[r:RELATED_TO]-(c2)
\*   ON CREATE SET r.weight = $weight ON MATCH SET r.weight = r.weight + $weight
MergeRelated(r, f, x, y, w) ==
  IF x \in DOMAIN f /\ y \in DOMAIN f
  THEN IF RelatedBetween(r, x, y) = {}
       THEN r @@ (<<x, y, "RELATED_TO">> :> [weight |-> w, confidence |-> 0])
       ELSE [e \in DOMAIN r |->
               IF e \in RelatedBetween(r, x, y)
               THEN [r[e] EXCEPT !.weight = Add(@, w)] ELSE r[e]]
  ELSE r

\* MATCH (e1:Entity {source}), (e2:Entity {target}) MERGE (e1)-[r:TYPE]->(e2)
\*   ON CREATE SET r.confidence = 1.0 ON MATCH SET r.confidence = r.confidence + 0.1
\* (confidence in tenths; the edge carries no weight)
MergeEntityRel(r, f, x, y, type) ==
  IF x \in DOMAIN f /\ y \in DOMAIN f
  THEN IF <<x, y, type>> \in DOMAIN r
       THEN [r EXCEPT ![<<x, y, type>>].confidence = @ + 1]
       ELSE r @@ (<<x, y, type>> :> [weight |-> 0, confidence |-> 10])
  ELSE r

\* MATCH (n) DETACH DELETE n
ClearGraph ==
  /\ docs' = EmptyFn
  /\ freq' = EmptyFn
  /\ contains' = EmptyFn
  /\ rels' = EmptyFn
  /\ ntype' = EmptyFn
  /\ community' = EmptyFn

(***************************************************************************)
(* What the collaborators may return.                                      *)
(***************************************************************************)
SeqsUpTo(S, n) == UNION {[1..k -> S] : k \in 0..n}

Distinct(s) == \A i, j \in 1..Len(s) : i # j => s[i].name # s[j].name
Descending(s) == \A i \in 1..(Len(s) - 1) : s[i].frequency >= s[i + 1].frequency

\* extractConcepts: one entry per stem, sorted by descending frequency.
ConceptLists ==
  {s \in SeqsUpTo([name : Names, frequency : 1..MaxFreq], MaxCand) :
     Distinct(s) /\ Descending(s)}

\* The enrichment call's entities carry a name (type, description), no frequency,
\* and may name an entity more than once.
EntityLists == SeqsUpTo([name : Names, frequency : {undefined}], MaxCand)
RelationshipLists ==
  {s \in SeqsUpTo([source : Names, target : Names, type : {"RELATED_TO"}], MaxRels) :
     \A i \in 1..Len(s) : s[i].source # s[i].target}

\* The extraction of a source that was not read.
NoExtraction == [entities |-> <<>>, relationships |-> <<>>, reply |-> "none"]

\* extractEntitiesWithLLM: the concept array (no API key), the fallback
\* {entities: concepts, relationships: []} (the call or JSON.parse threw), the
\* parsed reply, or a parsed reply that holds no entity list (JSON.parse
\* succeeds on any JSON text and the result is returned as it is).
FileExtractions ==
  [entities : ConceptLists, relationships : {<<>>}, reply : {"noKey", "error"}]
    \cup [entities : EntityLists, relationships : RelationshipLists, reply : {"parsed"}]
    \cup {[entities |-> <<>>, relationships |-> <<>>, reply |-> "unusable"]}
UrlExtractions == [entities : ConceptLists, relationships : {<<>>}, reply : {"none"}]

\* The sources of one ingest command: the files first, then the URLs.
Batches(n) ==
  {b \in SeqsUpTo(Kinds, n) :
     Len(b) >= 1 /\ \A i \in 1..(Len(b) - 1) : ~(b[i] = "url" /\ b[i + 1] = "file")}

Sizes == 1..(MaxCeiling + 1)
\* this.maxFileSize, this.maxSize
maxFileSize == MaxCeiling
maxSize == MaxCeiling

\* What a terminal session may see: every reply, one command at a time.
TerminalInputs ==
  [procs |-> {1}, file |-> FileExtractions, url |-> UrlExtractions,
   batches |-> MaxItems]
\* What the front end's processes see in SpecServer: the deterministic
\* extractor's full lists, one source per request.
ServerLists ==
  {s \in ConceptLists : Len(s) = 2 /\ s[1].name = "a" /\ s[1].frequency > s[2].frequency}
ServerReplies ==
  {x \in [entities : EntityLists, relationships : RelationshipLists, reply : {"parsed"}] :
     /\ Len(x.entities) = 2 /\ x.entities[1].name = "a" /\ x.entities[2].name = "b"
     /\ Len(x.relationships) = 1 /\ x.relationships[1].source = "a"}
ServerInputs ==
  [procs |-> Procs,
   file |-> [entities : ServerLists, relationships : {<<>>}, reply : {"noKey"}]
              \cup ServerReplies,
   url |-> [entities : ServerLists, relationships : {<<>>}, reply : {"none"}],
   batches |-> 1]

NoCur == [kind |-> "file", clear |-> FALSE, size |-> 0, entities |-> <<>>,
          relationships |-> <<>>, docId |-> <<"file", 0>>, i |-> 0, j |-> 0,
          wrote |-> FALSE, overlapped |-> FALSE, reply |-> "none", collided |-> FALSE,
          sent |-> <<>>]

\* The positions at which an ingestion has a statement to send.
InFlight == {"clear", "createDoc", "merge", "contains", "entityRel", "related"}

\* The ingest command's view of its sources: none yet; the clears it has sent
\* and the documents it has stored since (in part_002: the documents the
\* KnowledgeGraphCLI object has stored).
NoRun == [sources |-> <<>>, attempted |-> <<>>, outcomes |-> <<>>, cleared |-> 0,
          stored |-> {}]

\* The result of an earlier detectCommunities call: none.
NoPrev == [path |-> "none", count |-> 0, labels |-> EmptyFn]

\* const stats = {}
NoStats == [documents |-> 0, concepts |-> 0, entities |-> 0, relationships |-> 0]

\* No query, no community detection and no statistics under way.
NoQry == [op |-> "none", question |-> <<>>, asked |-> "none", mode |-> "none",
          reads |-> 0, failed |-> FALSE, llm |-> "none", result |-> "none",
          found |-> {}, listing |-> EmptyFn, path |-> "none", count |-> 0,
          prev |-> NoPrev, stats |-> NoStats]

Label(p) == IF cur[p].kind = "file" THEN "Entity" ELSE "Concept"
Node(p, n) == <<Label(p), n>>

\* No extraction asked for, no excerpt chosen, no document statement sent.
NoConcepts == [by |-> "none", list |-> <<>>]
NoAnswer == [done |-> FALSE, index |-> 0, score |-> 0]
NoRows == [by |-> "none", list |-> <<>>]

NoExtract == text = <<>> /\ concepts = NoConcepts
NoExcerpt == sentences = <<>> /\ bestAnswer = NoAnswer
NoRanking == matches = <<>> /\ rows = NoRows

\* The store and the commands before the first command.
InitStore ==
  /\ docs = EmptyFn
  /\ freq = EmptyFn
  /\ contains = EmptyFn
  /\ rels = EmptyFn
  /\ clock = 0
  /\ pc = [p \in Procs |-> "idle"]
  /\ batch = [p \in Procs |-> <<>>]
  /\ clearOpt = [p \in Procs |-> FALSE]
  /\ isFirstItem = [p \in Procs |-> TRUE]
  /\ cur = [p \in Procs |-> NoCur]
  /\ totalSize = 0
  /\ started = 0
  /\ clears = 0
  /\ completed = {}
  /\ ntype = EmptyFn
  /\ community = EmptyFn
  /\ run = [p \in Procs |-> NoRun]
  /\ qry = [p \in Procs |-> NoQry]

Init ==
  /\ InitStore
  /\ NoExtract
  /\ NoExcerpt
  /\ NoRanking

\* The front end starts each command as a process of its own: a command takes
\* the lowest free process.
Free(p) == pc[p] = "idle" /\ \A q \in Procs : q < p => pc[q] # "idle"

(***************************************************************************)
(* knowledge-graph.js: the ingest command.                                 *)
(***************************************************************************)
StartIngest(p, In) ==
  /\ p \in In.procs
  /\ Free(p)
  /\ started < MaxItems
  /\ \E b \in Batches(IF In.batches < MaxItems - started THEN In.batches
                      ELSE MaxItems - started), c \in BOOLEAN :
       /\ batch' = [batch EXCEPT ![p] = b]
       /\ run' = [run EXCEPT ![p] = [NoRun EXCEPT !.sources = b]]
       /\ clearOpt' = [clearOpt EXCEPT ![p] = c]
       /\ started' = started + Len(b)
  /\ isFirstItem' = [isFirstItem EXCEPT ![p] = TRUE]
  /\ pc' = [pc EXCEPT ![p] = "next"]
  /\ UNCHANGED <<graphVars, clock, cur, totalSize, clears, completed>>
  /\ UNCHANGED <<qry>>
  /\ UNCHANGED fnVars

\* The type the enrichment reply gives to each name it returns.
LlmType(n) == IF n = "a" THEN "PERSON" ELSE "ORGANIZATION"

\* type: entity.type || 'CONCEPT', set ON CREATE only; Concept nodes carry none.
SetTypeOnCreate(t, c, n) ==
  IF c.kind # "file" \/ Entity(n) \in DOMAIN t THEN t
  ELSE t @@ (Entity(n) :> IF c.reply = "parsed" THEN LlmType(n) ELSE "CONCEPT")

\* Where an ingestion goes once its entities are stored.
AfterEntities(c) ==
  IF c.kind = "file" /\ Len(c.relationships) > 0 THEN "entityRel"
  ELSE IF Len(c.entities) >= 2 THEN "related"
  ELSE "succeeded"

\* The same with the clear sent before the size check.
IngestFlowClearFirst(at, readOk, c) ==
  IF at = "begin" /\ c.clear THEN "clear"
  ELSE IF ~readOk THEN "failed"
  ELSE IF c.size > maxFileSize THEN "rejected"
  ELSE "createDoc"

\* The order of ingestFile / ingestUrl up to the Document node: stat or fetch,
\* the size check, the read, the clear when asked for.
IngestFlow(at, readOk, c) ==
  IF at = "clear" THEN "createDoc"
  ELSE IF ~readOk THEN "failed"
  ELSE IF c.size > maxFileSize THEN "rejected"
  ELSE IF c.clear THEN "clear"
  ELSE "createDoc"

\* ingestFile / ingestUrl up to the first statement.  The extraction reads
\* nothing of the graph: its result is drawn here.
BeginItem(p, In) ==
  /\ pc[p] = "next"
  /\ batch[p] # <<>>
  /\ batch' = [batch EXCEPT ![p] = Tail(@)]
  /\ run' = [run EXCEPT ![p].attempted = Append(@, Head(batch[p]))]
  /\ isFirstItem' = [isFirstItem EXCEPT ![p] = FALSE]
  /\ \E size \in Sizes, readOk \in BOOLEAN,
        x \in (IF Head(batch[p]) = "file" THEN In.file ELSE In.url) \cup {NoExtraction} :
       LET c == [kind |-> Head(batch[p]), clear |-> clearOpt[p] /\ isFirstItem[p],
                 size |-> size, entities |-> x.entities,
                 relationships |-> x.relationships,
                 docId |-> <<Head(batch[p]), 0>>, i |-> 1, j |-> 2, wrote |-> FALSE,
                 overlapped |-> \E q \in Procs \ {p} : pc[q] \in InFlight,
                 reply |-> x.reply, collided |-> FALSE, sent |-> <<>>]
       IN  /\ IF ~readOk \/ size > maxFileSize
              THEN x = NoExtraction /\ size >= MaxCeiling
              ELSE x \in (IF Head(batch[p]) = "file" THEN In.file ELSE In.url)
           /\ cur' = [cur EXCEPT ![p] = c]
           /\ pc' = [pc EXCEPT ![p] = IngestFlow("begin", readOk, c)]
  /\ UNCHANGED <<graphVars, clock, clearOpt, totalSize, started, clears, completed>>
  /\ UNCHANGED <<qry>>
  /\ UNCHANGED fnVars

\* if (clear) await session.run('MATCH (n) DETACH DELETE n')
ClearFirst(p) ==
  /\ pc[p] = "clear"
  /\ ClearGraph
  /\ cur' = [cur EXCEPT ![p].wrote = TRUE, ![p].sent = Append(@, "clear")]
  /\ run' = [run EXCEPT ![p].cleared = @ + 1, ![p].stored = {}]
  /\ pc' = [pc EXCEPT ![p] = IngestFlow("clear", TRUE, cur[p])]
  /\ UNCHANGED <<clock, batch, clearOpt, isFirstItem, totalSize, started, clears, completed>>
  /\ UNCHANGED <<qry>>
  /\ UNCHANGED fnVars

\* const entities = extracted.entities || extracted; for (const entity of
\* entities): a reply without an entity list is not iterable, the TypeError is
\* caught by ingestFile's catch block and the call returns false.
AfterDocument(c) ==
  IF c.reply = "unusable" THEN "failed"
  ELSE IF c.entities = <<>> THEN AfterEntities(c)
  ELSE "merge"

\* CREATE (d:Document {id: <name>_<Date.now()>, ...}); d.id is unique: the
\* statement of a second document with the same name and the same clock
\* reading violates the constraint, and the catch block returns false.
CreateDocument(p) ==
  /\ pc[p] = "createDoc"
  /\ \E t \in clock..MaxClock :
       LET id == <<cur[p].kind, t>> IN
       /\ t > clock => \E d \in DOMAIN docs : d[2] = clock
       /\ clock' = t
       /\ IF id \in DOMAIN docs
          THEN /\ pc' = [pc EXCEPT ![p] = "failed"]
               /\ docs' = docs
               /\ cur' = [cur EXCEPT ![p] = [NoCur EXCEPT !.collided = TRUE]]
               /\ completed' = completed
               /\ run' = run
          ELSE /\ docs' = docs @@ (id :> [size |-> cur[p].size, content |-> cur[p].entities])
               /\ cur' = [cur EXCEPT ![p].docId = id, ![p].wrote = TRUE,
                                      ![p].sent = Append(@, "document")]
               /\ completed' = completed \ {id}
               /\ run' = [run EXCEPT ![p].stored = @ \cup {id}]
               /\ pc' = [pc EXCEPT ![p] = AfterDocument(cur[p])]
  /\ UNCHANGED <<freq, contains, rels, batch, clearOpt, isFirstItem, totalSize, started,
                 clears>>
  /\ UNCHANGED <<ntype, community, qry>>
  /\ UNCHANGED fnVars

MergeEntity(p) ==
  /\ pc[p] = "merge"
  /\ LET e == cur[p].entities[cur[p].i] IN
       /\ freq' = MergeNode(freq, Node(p, e.name), FrequencyOr1(e.frequency))
       /\ ntype' = SetTypeOnCreate(ntype, cur[p], e.name)
  /\ cur' = [cur EXCEPT ![p].sent = Append(@, "node")]
  /\ pc' = [pc EXCEPT ![p] = "contains"]
  /\ UNCHANGED <<docs, contains, rels, clock, batch, clearOpt, isFirstItem, totalSize,
                 started, clears, completed>>
  /\ UNCHANGED <<community, run, qry>>
  /\ UNCHANGED fnVars

\* The same loop left after its first candidate.
AfterContainsFirst(c) == AfterEntities(c)

\* for (const entity of entities) { MERGE ...; CREATE ... }: the next
\* candidate, and after the last one the relationships.
AfterContains(c) == IF c.i < Len(c.entities) THEN "merge" ELSE AfterEntities(c)

ContainsEdge(p) ==
  /\ pc[p] = "contains"
  /\ LET e == cur[p].entities[cur[p].i] IN
       contains' = CreateContains(contains, docs, freq, cur[p].docId, Node(p, e.name),
                                  FrequencyOr1(e.frequency))
  /\ cur' = [cur EXCEPT ![p].i = IF AfterContains(cur[p]) = "merge" THEN @ + 1 ELSE 1,
                         ![p].sent = Append(@, "contains")]
  /\ pc' = [pc EXCEPT ![p] = AfterContains(cur[p])]
  /\ UNCHANGED <<docs, freq, rels, clock, batch, clearOpt, isFirstItem, totalSize, started,
                 clears, completed>>
  /\ UNCHANGED <<ntype, community, run, qry>>
  /\ UNCHANGED fnVars

\* createEntityRelationships: a failing statement is skipped.
EntityRelationship(p) ==
  /\ pc[p] = "entityRel"
  /\ LET r == cur[p].relationships[cur[p].i] IN
       \/ rels' = MergeEntityRel(rels, freq, Entity(r.source), Entity(r.target), r.type)
       \/ rels' = rels
  /\ IF cur[p].i < Len(cur[p].relationships)
     THEN /\ cur' = [cur EXCEPT ![p].i = @ + 1, ![p].sent = Append(@, "related")]
          /\ pc' = pc
     ELSE /\ cur' = [cur EXCEPT ![p].sent = Append(@, "related")]
          /\ pc' = [pc EXCEPT ![p] = "succeeded"]
  /\ UNCHANGED <<docs, freq, contains, clock, batch, clearOpt, isFirstItem, totalSize, started,
                 clears, completed>>
  /\ UNCHANGED <<ntype, community, run, qry>>
  /\ UNCHANGED fnVars

\* const weight = Math.min(concepts[i].frequency, concepts[j].frequency)
PairWeight(x, y) == MathMin(x, y)

\* createConceptRelationships: every pair i < j of the list.
ConceptRelationship(p) ==
  /\ pc[p] = "related"
  /\ LET c == cur[p]
         w == PairWeight(c.entities[c.i].frequency, c.entities[c.j].frequency)
     IN  /\ rels' = MergeRelated(rels, freq, Concept(c.entities[c.i].name),
                                 Concept(c.entities[c.j].name), w)
         /\ IF c.j < Len(c.entities)
            THEN /\ cur' = [cur EXCEPT ![p].j = @ + 1, ![p].sent = Append(@, "related")]
                 /\ pc' = pc
            ELSE IF c.i + 1 < Len(c.entities)
            THEN /\ cur' = [cur EXCEPT ![p].i = c.i + 1, ![p].j = c.i + 2,
                                       ![p].sent = Append(@, "related")]
                 /\ pc' = pc
            ELSE /\ cur' = [cur EXCEPT ![p].sent = Append(@, "related")]
                 /\ pc' = [pc EXCEPT ![p] = "succeeded"]
  /\ UNCHANGED <<docs, freq, contains, clock, batch, clearOpt, isFirstItem, totalSize, started,
                 clears, completed>>
  /\ UNCHANGED <<ntype, community, run, qry>>
  /\ UNCHANGED fnVars

\* A statement of the ingestion fails: the catch block returns false.
StorageFailure(p) ==
  /\ pc[p] \in InFlight \ {"entityRel"}
  /\ pc' = [pc EXCEPT ![p] = "failed"]
  /\ cur' = [cur EXCEPT ![p] = NoCur]
  /\ UNCHANGED <<graphVars, clock, batch, clearOpt, isFirstItem, totalSize, started,
                 clears, completed>>
  /\ UNCHANGED <<run, qry>>
  /\ UNCHANGED fnVars

\* The same loop leaving at the first source that did not succeed.
AfterItemAbort(outcome, rest) ==
  IF rest # <<>> /\ outcome = "succeeded" THEN "next" ELSE "idle"

\* for (const file of files) { ... }  for (const url of urls) { ... }: the
\* outcome of a source does not decide whether the next one is attempted.
AfterItem(outcome, rest) == IF rest # <<>> THEN "next" ELSE "idle"

\* ingestFile / ingestUrl returns: the loop goes on to the next source, and
\* after the last one the command ends (kg.close()).
ItemEnd(p) ==
  /\ pc[p] \in {"succeeded", "failed", "rejected"}
  /\ cur' = [cur EXCEPT ![p] = NoCur]
  /\ completed' = IF pc[p] = "succeeded" THEN completed \cup {cur[p].docId} ELSE completed
  /\ run' = [run EXCEPT ![p].outcomes = Append(@, pc[p])]
  /\ pc' = [pc EXCEPT ![p] = AfterItem(pc[p], batch[p])]
  /\ IF AfterItem(pc[p], batch[p]) = "next"
     THEN /\ UNCHANGED <<clearOpt, isFirstItem>>
     ELSE /\ clearOpt' = [clearOpt EXCEPT ![p] = FALSE]
          /\ isFirstItem' = [isFirstItem EXCEPT ![p] = TRUE]
  /\ UNCHANGED <<graphVars, clock, batch, totalSize, started, clears>>
  /\ UNCHANGED <<qry>>
  /\ UNCHANGED fnVars

(***************************************************************************)
(* getStats of knowledge-graph.js and getGraphStats of unnamed/part_002.   *)
(***************************************************************************)
\* The edges of the graph: the CONTAINS edges one by one, and the edges
\* between Concept or Entity nodes.
ContainsEdges == UNION {{<<k, i>> : i \in 1..Len(contains[k])} : k \in DOMAIN contains}
Edges == ContainsEdges \cup DOMAIN rels

\* MATCH (n:Label): the nodes carrying the label.
NodesLabelled(label) ==
  IF label = "Document" THEN DOMAIN docs ELSE {n \in DOMAIN freq : n[1] = label}

\* MATCH ()-[r]-(): a pattern without direction matches every edge from each
\* of its two ends.
MatchUndirected(edges) == edges \X {"from", "to"}

\* getStats: one counting statement after the other.
getStats ==
  [documents |-> Cardinality(NodesLabelled("Document")),
   concepts |-> Cardinality(NodesLabelled("Concept")),
   entities |-> Cardinality(NodesLabelled("Entity")),
   relationships |-> Cardinality(MatchUndirected(Edges))]

\* getGraphStats: MATCH (d:Document) OPTIONAL MATCH (c:Concept) OPTIONAL MATCH
\* (r:RELATED_TO) RETURN COUNT(DISTINCT ...): r ranges over the nodes
\* labelled RELATED_TO, and without a Document there is no row to count.
getGraphStats ==
  IF NodesLabelled("Document") = {} THEN NoStats
  ELSE [documents |-> Cardinality(NodesLabelled("Document")),
        concepts |-> Cardinality(NodesLabelled("Concept")),
        entities |-> 0,
        relationships |-> Cardinality(NodesLabelled("RELATED_TO"))]

\* The stats command of knowledge-graph.js.
GetStats(p) ==
  /\ Free(p)
  /\ qry' = [qry EXCEPT ![p] = [NoQry EXCEPT !.op = "stats", !.stats = getStats]]
  /\ pc' = [pc EXCEPT ![p] = "qDone"]
  /\ UNCHANGED <<graphVars, clock, batch, clearOpt, isFirstItem, cur, totalSize, started,
                 clears, completed, run>>
  /\ UNCHANGED fnVars

\* The statistics are printed and the command ends.
StatsEnd(p) ==
  /\ pc[p] = "qDone"
  /\ qry[p].op \in {"stats", "cliStats"}
  /\ pc' = [pc EXCEPT ![p] = "idle"]
  /\ qry' = [qry EXCEPT ![p] = NoQry]
  /\ UNCHANGED <<graphVars, clock, batch, clearOpt, isFirstItem, cur, totalSize, started,
                 clears, completed, run>>
  /\ UNCHANGED fnVars

\* kg.getGraphStats() of part_002.
GetGraphStats(p) ==
  /\ pc[p] = "idle"
  /\ qry' = [qry EXCEPT ![p] = [NoQry EXCEPT !.op = "cliStats", !.stats = getGraphStats]]
  /\ pc' = [pc EXCEPT ![p] = "qDone"]
  /\ UNCHANGED <<graphVars, clock, batch, clearOpt, isFirstItem, cur, totalSize, started,
                 clears, completed, run>>
  /\ UNCHANGED fnVars

(***************************************************************************)
(* knowledge-graph.js: the clear command.                                  *)
(***************************************************************************)
StartClear(p, In) ==
  /\ p \in In.procs
  /\ Free(p)
  /\ clears < MaxClears
  /\ clears' = clears + 1
  /\ pc' = [pc EXCEPT ![p] = "clearCmd"]
  /\ UNCHANGED <<graphVars, clock, batch, clearOpt, isFirstItem, cur, totalSize, started,
                 completed>>
  /\ UNCHANGED <<run, qry>>
  /\ UNCHANGED fnVars

ClearCommand(p) ==
  /\ pc[p] = "clearCmd"
  /\ \/ ClearGraph
     \/ UNCHANGED graphVars
  /\ pc' = [pc EXCEPT ![p] = "idle"]
  /\ UNCHANGED <<clock, batch, clearOpt, isFirstItem, cur, totalSize, started, clears,
                 completed>>
  /\ UNCHANGED <<run, qry>>
  /\ UNCHANGED fnVars

Step(p, In) ==
  \/ StartIngest(p, In)
  \/ BeginItem(p, In)
  \/ ClearFirst(p)
  \/ CreateDocument(p)
  \/ MergeEntity(p)
  \/ ContainsEdge(p)
  \/ EntityRelationship(p)
  \/ ConceptRelationship(p)
  \/ StorageFailure(p)
  \/ ItemEnd(p)
  \/ StartClear(p, In)
  \/ ClearCommand(p)

Next == \E p \in Procs : Step(p, TerminalInputs)
Spec == Init /\ [][Next]_vars

NextServer == \E p \in Procs : Step(p, ServerInputs)
SpecServer == Init /\ [][NextServer]_vars

(***************************************************************************)
(* unnamed/part_002: the KnowledgeGraphCLI object.                         *)
(***************************************************************************)
\* extractConcepts keeps the terms counted at least twice and returns their
\* names only; frequency is the count it drops.
CliLists ==
  {s \in SeqsUpTo([name : Names, frequency : 2..MaxFreq], MaxCand) : Distinct(s)}

\* checkSizeLimit(newSize)
CheckSizeLimit(total, newSize) == ~(total + newSize > maxSize)

\* ingestFile / ingestUrl: stat or fetch, checkSizeLimit, read, and the
\* extraction that opens processDocument.
CliIngest(p) ==
  /\ pc[p] = "idle"
  /\ started < MaxItems
  /\ started' = started + 1
  /\ \E kind \in Kinds, size \in Sizes, readOk \in BOOLEAN, x \in CliLists :
       /\ (~readOk \/ ~CheckSizeLimit(totalSize, size)) => x = <<>>
       /\ ~readOk => size = 1
       /\ cur' = [cur EXCEPT ![p] =
                    [kind |-> kind, clear |-> FALSE, size |-> size, entities |-> x,
                     relationships |-> <<>>, docId |-> <<kind, started>>, i |-> 1, j |-> 2,
                     wrote |-> FALSE, overlapped |-> FALSE, reply |-> "none",
                     collided |-> FALSE, sent |-> <<>>]]
       /\ pc' = [pc EXCEPT ![p] =
                   IF ~readOk THEN "failed"
                   ELSE IF ~CheckSizeLimit(totalSize, size) THEN "rejected"
                   ELSE "cliCreateDoc"]
  /\ UNCHANGED <<graphVars, clock, batch, clearOpt, isFirstItem, totalSize, clears, completed>>
  /\ UNCHANGED <<run, qry>>
  /\ UNCHANGED fnVars

\* Where processDocument goes after its concept loop.
CliAfterConcepts(c) == IF Len(c.entities) >= 2 THEN "cliRelated" ELSE "cliFinish"

\* CREATE (d:Document {id: <type>_<Date.now()>_<random>, ..., size: content.length})
CliCreateDocument(p) ==
  /\ pc[p] = "cliCreateDoc"
  /\ docs' = docs @@ (cur[p].docId :> [size |-> cur[p].size, content |-> cur[p].entities])
  /\ cur' = [cur EXCEPT ![p].wrote = TRUE, ![p].sent = Append(@, "document")]
  /\ pc' = [pc EXCEPT ![p] =
              IF cur[p].entities = <<>> THEN CliAfterConcepts(cur[p]) ELSE "cliConcept"]
  /\ run' = [run EXCEPT ![p].stored = @ \cup {cur[p].docId}]
  /\ UNCHANGED <<freq, contains, rels, clock, batch, clearOpt, isFirstItem, totalSize,
                 started, clears, completed>>
  /\ UNCHANGED <<ntype, community, qry>>
  /\ UNCHANGED fnVars

\* MERGE (c:Concept {name}) ON CREATE SET c.frequency = 1
\*   ON MATCH SET c.frequency = c.frequency + 1
\* WITH c MATCH (d:Document {id}) CREATE (d)-[:CONTAINS {weight: 1}]->(c)
CliMergeConcept(p) ==
  /\ pc[p] = "cliConcept"
  /\ LET node == Concept(cur[p].entities[cur[p].i].name)
         merged == MergeNode(freq, node, 1)
     IN  /\ freq' = merged
         /\ contains' = CreateContains(contains, docs, merged, cur[p].docId, node, 1)
  /\ IF cur[p].i < Len(cur[p].entities)
     THEN /\ cur' = [cur EXCEPT ![p].i = @ + 1, ![p].sent = @ \o <<"node", "contains">>]
          /\ pc' = pc
     ELSE /\ cur' = [cur EXCEPT ![p].i = 1, ![p].sent = @ \o <<"node", "contains">>]
          /\ pc' = [pc EXCEPT ![p] = CliAfterConcepts(cur[p])]
  /\ UNCHANGED <<docs, rels, clock, batch, clearOpt, isFirstItem, totalSize, started, clears,
                 completed>>
  /\ UNCHANGED <<ntype, community, run, qry>>
  /\ UNCHANGED fnVars

\* MERGE (c1)-[r:RELATED_TO]-(c2) ON CREATE SET r.weight = 1
\*   ON MATCH SET r.weight = r.weight + 1, for every pair i < j
CliRelated(p) ==
  /\ pc[p] = "cliRelated"
  /\ LET c == cur[p] IN
       /\ rels' = MergeRelated(rels, freq, Concept(c.entities[c.i].name),
                               Concept(c.entities[c.j].name), 1)
       /\ IF c.j < Len(c.entities)
          THEN /\ cur' = [cur EXCEPT ![p].j = @ + 1, ![p].sent = Append(@, "related")]
               /\ pc' = pc
          ELSE IF c.i + 1 < Len(c.entities)
          THEN /\ cur' = [cur EXCEPT ![p].i = c.i + 1, ![p].j = c.i + 2,
                                     ![p].sent = Append(@, "related")]
               /\ pc' = pc
          ELSE /\ cur' = [cur EXCEPT ![p].sent = Append(@, "related")]
               /\ pc' = [pc EXCEPT ![p] = "cliFinish"]
  /\ UNCHANGED <<docs, freq, contains, clock, batch, clearOpt, isFirstItem, totalSize,
                 started, clears, completed>>
  /\ UNCHANGED <<ntype, community, run, qry>>
  /\ UNCHANGED fnVars

\* this.totalSize += content.length; return the summary
CliFinish(p) ==
  /\ pc[p] = "cliFinish"
  /\ totalSize' = totalSize + cur[p].size
  /\ pc' = [pc EXCEPT ![p] = "succeeded"]
  /\ UNCHANGED <<graphVars, clock, batch, clearOpt, isFirstItem, cur, started, clears,
                 completed>>
  /\ UNCHANGED <<run, qry>>
  /\ UNCHANGED fnVars

\* A statement of processDocument fails: the error is rethrown to the caller.
CliStorageFailure(p) ==
  /\ pc[p] \in {"cliCreateDoc", "cliConcept", "cliRelated"}
  /\ pc' = [pc EXCEPT ![p] = "failed"]
  /\ cur' = [cur EXCEPT ![p] = NoCur]
  /\ UNCHANGED <<graphVars, clock, batch, clearOpt, isFirstItem, totalSize, started, clears,
                 completed>>
  /\ UNCHANGED <<run, qry>>
  /\ UNCHANGED fnVars

\* clearDatabase(): the statement, then totalSize = 0; a failure is rethrown.
CliClearDatabase(p) ==
  /\ pc[p] = "idle"
  /\ clears < MaxClears
  /\ clears' = clears + 1
  /\ \/ ClearGraph /\ totalSize' = 0
     \/ UNCHANGED <<graphVars, totalSize>>
  /\ UNCHANGED <<clock, pc, batch, clearOpt, isFirstItem, cur, started, completed>>
  /\ UNCHANGED <<run, qry>>
  /\ UNCHANGED fnVars

\* A new process: new KnowledgeGraphCLI() sets totalSize = 0; the store stays.
CliRestart(p) ==
  /\ pc[p] = "idle"
  /\ totalSize # 0
  /\ totalSize' = 0
  /\ run' = [run EXCEPT ![p] = NoRun]
  /\ UNCHANGED <<graphVars, clock, pc, batch, clearOpt, isFirstItem, cur, started, clears,
                 completed>>
  /\ UNCHANGED <<qry>>
  /\ UNCHANGED fnVars

NextCLI ==
  \E p \in {1} :
    \/ CliIngest(p)
    \/ CliCreateDocument(p)
    \/ CliMergeConcept(p)
    \/ CliRelated(p)
    \/ CliFinish(p)
    \/ CliStorageFailure(p)
    \/ ItemEnd(p)
    \/ CliClearDatabase(p)
    \/ CliRestart(p)
    \/ GetGraphStats(p)
    \/ StatsEnd(p)

SpecCLI == Init /\ [][NextCLI]_vars

(***************************************************************************)
(* knowledge-graph.js: questions and their terms.                          *)
(***************************************************************************)
MaxWords == 2       \* words of one question

\* The words questions are made of, and the text the names a, b stand for.
Words == {"the", "of", "show", "overall", "detail", "graphs"}
Text(n) == IF n = "a" THEN "graph" ELSE "node"

\* The questions asked: one word, or one word followed by one of SecondWords.
SecondWords == {"overall", "of"}
Questions ==
  {q \in SeqsUpTo(Words, MaxWords) : Len(q) >= 1 /\ (Len(q) > 1 => q[Len(q)] \in SecondWords)}

\* natural.stopwords, as far as the words above go.
StopWords == {"the", "of"}

\* The character of w at position i, and the last one.
CharAt(w, i) == SubSeq(w, i, i)
LastChar(w) == CharAt(w, Len(w))

\* natural.PorterStemmer.stem, as far as the words of the model go: step 1a
\* drops a final s that does not follow an s, step 5b a doubled final l.
Stem(w) ==
  IF w = "overall" THEN "overal"
  ELSE IF Len(w) > 2 /\ LastChar(w) = "s" /\ CharAt(w, Len(w) - 1) # "s"
  THEN SubSeq(w, 1, Len(w) - 1)
  ELSE w

\* haystack.includes(needle) / haystack CONTAINS needle
Includes(haystack, needle) ==
  \E i \in 1..(Len(haystack) - Len(needle) + 1) :
    SubSeq(haystack, i, i + Len(needle) - 1) = needle

\* The question as typed: its words separated by blanks.
RECURSIVE Join(_)
Join(q) == IF Len(q) = 1 THEN q[1] ELSE q[1] \o " " \o Join(Tail(q))

globalIndicators ==
  {"overall", "general", "compare", "analyze", "overview", "summary", "trend", "pattern"}
localIndicators == {"specific", "detail", "who", "what", "when", "where", "how"}

\* indicators.filter(indicator => lowerQuestion.includes(indicator)).length
Score(indicators, lowerQuestion) ==
  Cardinality({i \in indicators : Includes(lowerQuestion, i)})

determineSearchMode(q) ==
  IF Score(globalIndicators, Join(q)) > Score(localIndicators, Join(q))
  THEN "global" ELSE "local"

\* questionTokens.filter(token => !stopwords.includes(token) && token.length > 2)
\*   .map(token => stemmer.stem(token))
KeyTerms(q) ==
  LET kept == SelectSeq(q, LAMBDA w : w \notin StopWords /\ Len(w) > 2)
  IN  [i \in 1..Len(kept) |-> Stem(kept[i])]

\* part_002: question.toLowerCase().split(/\s+/).filter(word => word.length > 2)
QueryWords(q) == SelectSeq(q, LAMBDA w : Len(w) > 2)

\* MATCH (e:Entity) WHERE ANY(term IN $terms WHERE e.name CONTAINS term ...)
EntityMatches(terms) ==
  {n \in Names : Entity(n) \in DOMAIN freq
                 /\ \E k \in 1..Len(terms) : Includes(Text(n), terms[k])}

\* MATCH (c:Concept) WHERE ANY(term IN $terms WHERE c.name CONTAINS term)
ConceptMatches(terms) ==
  {n \in Names : Concept(n) \in DOMAIN freq
                 /\ \E k \in 1..Len(terms) : Includes(Text(n), terms[k])}

\* part_002: ... WHERE ANY(word IN $words WHERE c.name CONTAINS word)
\*                  OR ANY(word IN $words WHERE word CONTAINS c.name)
CliConceptMatches(words) ==
  {n \in Names : Concept(n) \in DOMAIN freq
                 /\ \E k \in 1..Len(words) :
                      Includes(Text(n), words[k]) \/ Includes(words[k], Text(n))}

\* MATCH (d:Document)-[:CONTAINS]->(c:Concept) WHERE c.name IN $concepts
DocumentsOf(found) ==
  {d \in DOMAIN docs : \E n \in found : <<d, Concept(n)>> \in DOMAIN contains}

(***************************************************************************)
(* knowledge-graph.js: community detection.                                *)
(***************************************************************************)
EntityNodes == {n \in DOMAIN freq : n[1] = "Entity"}

\* gds.graph.project('entity-graph', 'Entity', '*'): the Entity nodes and the
\* relationships of every type between them, taken as undirected.
Linked(x, y) == \E e \in DOMAIN rels : (e[1] = x /\ e[2] = y) \/ (e[1] = y /\ e[2] = x)

\* The nodes of S joined to x by a chain of relationships inside S.
Component(S, x) ==
  LET grow[k \in 0..Cardinality(S)] ==
        IF k = 0 THEN {x}
        ELSE grow[k - 1] \cup {y \in S : \E z \in grow[k - 1] : Linked(z, y)}
  IN  grow[Cardinality(S)]

\* The component id gds.wcc writes: one value per component, the same for the
\* same graph; written here as the least name of the component.
ComponentId(S, x) ==
  LET names == {y[2] : y \in Component(S, x)}
  IN  "wcc_" \o (IF "a" \in names THEN "a" ELSE "b")

\* The same statements adding to the label a node already has.
SetCommunityAdd(c, S, label) ==
  [n \in DOMAIN c \cup S |->
     IF n \in S THEN (IF n \in DOMAIN c THEN c[n] \o "+" \o label[n] ELSE label[n])
     ELSE c[n]]

\* writeProperty: 'community' / SET e.community = ...: the property of every
\* node of S is overwritten.
SetCommunity(c, S, label) ==
  [n \in DOMAIN c \cup S |-> IF n \in S THEN label[n] ELSE c[n]]

\* CASE WHEN e.type = 'PERSON' THEN 'people' ... ELSE 'concepts' END
Bucket(type) ==
  IF type = "PERSON" THEN "people"
  ELSE IF type = "ORGANIZATION" THEN "organizations"
  ELSE IF type = "TECHNOLOGY" THEN "technologies"
  ELSE IF type = "LOCATION" THEN "locations"
  ELSE "concepts"

\* The values of e.community over the Entity nodes that carry one.
Communities(c) == {c[n] : n \in {m \in DOMAIN c : m[1] = "Entity"}}

\* The positions of a query or a community detection.
QueryPcs == {"gCommunities", "gSummarize", "lEntities", "lConcepts", "lDocs",
             "cConcepts", "cDocs", "qDone"}
DetectPcs == {"detect", "detectFallback", "detectCount", "dDone"}

\* kg.detectCommunities() is called; a second call follows the first at once.
DetectStart(p) ==
  /\ \/ /\ Free(p)
        /\ qry' = [qry EXCEPT ![p] = [NoQry EXCEPT !.op = "detect"]]
     \/ /\ pc[p] = "dDone"
        /\ qry[p].prev = NoPrev
        /\ qry[p].result = "returned"
        /\ qry' = [qry EXCEPT ![p] =
                     [NoQry EXCEPT !.op = "detect",
                                   !.prev = [path |-> qry[p].path, count |-> qry[p].count,
                                             labels |-> community]]]
  /\ pc' = [pc EXCEPT ![p] = "detect"]
  /\ UNCHANGED <<graphVars, clock, batch, clearOpt, isFirstItem, cur, totalSize, started,
                 clears, completed, run>>
  /\ UNCHANGED fnVars

\* The gds statement: it writes the component ids and returns componentCount,
\* or it throws (no gds procedures, or any other error) and the catch block
\* takes over.
DetectPrimary(p) ==
  /\ pc[p] = "detect"
  /\ \/ LET label == [n \in EntityNodes |-> ComponentId(EntityNodes, n)] IN
          /\ community' = SetCommunity(community, EntityNodes, label)
          /\ qry' = [qry EXCEPT ![p].path = "primary", ![p].result = "returned",
                                ![p].count = Cardinality({label[n] : n \in EntityNodes})]
          /\ pc' = [pc EXCEPT ![p] = "dDone"]
     \/ /\ community' = community
        /\ qry' = [qry EXCEPT ![p].path = "fallback"]
        /\ pc' = [pc EXCEPT ![p] = "detectFallback"]
  /\ UNCHANGED <<docs, freq, contains, rels, ntype, clock, batch, clearOpt, isFirstItem, cur,
                 totalSize, started, clears, completed, run>>
  /\ UNCHANGED fnVars

\* MATCH (e:Entity) SET e.community = CASE ... END; outside any try block.
DetectFallback(p) ==
  /\ pc[p] = "detectFallback"
  /\ \/ LET label == [n \in EntityNodes |-> Bucket(ntype[n])] IN
          /\ community' = SetCommunity(community, EntityNodes, label)
          /\ qry' = qry
          /\ pc' = [pc EXCEPT ![p] = "detectCount"]
     \/ /\ community' = community
        /\ qry' = [qry EXCEPT ![p].result = "raised"]
        /\ pc' = [pc EXCEPT ![p] = "dDone"]
  /\ UNCHANGED <<docs, freq, contains, rels, ntype, clock, batch, clearOpt, isFirstItem, cur,
                 totalSize, started, clears, completed, run>>
  /\ UNCHANGED fnVars

\* MATCH (e:Entity) RETURN DISTINCT e.community; return result.records.length
DetectCount(p) ==
  /\ pc[p] = "detectCount"
  /\ \/ qry' = [qry EXCEPT ![p].result = "returned",
                           ![p].count = Cardinality(Communities(community))]
     \/ qry' = [qry EXCEPT ![p].result = "raised"]
  /\ pc' = [pc EXCEPT ![p] = "dDone"]
  /\ UNCHANGED <<graphVars, clock, batch, clearOpt, isFirstItem, cur, totalSize, started,
                 clears, completed, run>>
  /\ UNCHANGED fnVars

\* The communities command ends.
DetectEnd(p) ==
  /\ pc[p] = "dDone"
  /\ pc' = [pc EXCEPT ![p] = "idle"]
  /\ qry' = [qry EXCEPT ![p] = NoQry]
  /\ UNCHANGED <<graphVars, clock, batch, clearOpt, isFirstItem, cur, totalSize, started,
                 clears, completed, run>>
  /\ UNCHANGED fnVars

(***************************************************************************)
(* knowledge-graph.js: queryGraph, globalSearch, localSearch.              *)
(***************************************************************************)
\* The same statement rewriting what it matched.
MatchSetReturn(g) == EmptyFn

\* MATCH ... RETURN ...: a statement without SET, CREATE, MERGE or DELETE;
\* the store after it.
MatchReturn(g) == g

\* The store after one statement of a search.
SearchStatement ==
  /\ docs' = MatchReturn(docs)
  /\ freq' = MatchReturn(freq)
  /\ contains' = MatchReturn(contains)
  /\ rels' = MatchReturn(rels)
  /\ ntype' = MatchReturn(ntype)
  /\ community' = MatchReturn(community)

\* The same handlers letting the error through.
QueryRethrow(search) == "raised"

\* catch (error) { return `Global search error: ...` } and its likes in
\* localSearch and queryGraph: the error becomes the answer.
QueryCatch(search) == "error"

\* queryGraph(question, mode) up to the first statement of the search.
QueryStart(p) ==
  /\ Free(p)
  /\ \E q \in Questions, asked \in {"auto", "global", "local"} :
       LET mode == IF asked = "auto" THEN determineSearchMode(q)
                   ELSE IF asked = "global" THEN "global" ELSE "local"
           start == [NoQry EXCEPT !.op = "query", !.question = q, !.asked = asked,
                                  !.mode = mode]
       IN  IF mode = "global"
           THEN /\ qry' = [qry EXCEPT ![p] = start]
                /\ pc' = [pc EXCEPT ![p] = "gCommunities"]
           ELSE IF KeyTerms(q) = <<>>
           THEN /\ qry' = [qry EXCEPT ![p] = [start EXCEPT !.result = "moreSpecific"]]
                /\ pc' = [pc EXCEPT ![p] = "qDone"]
           ELSE /\ qry' = [qry EXCEPT ![p] = start]
                /\ pc' = [pc EXCEPT ![p] = "lEntities"]
  /\ UNCHANGED <<graphVars, clock, batch, clearOpt, isFirstItem, cur, totalSize, started,
                 clears, completed, run>>
  /\ UNCHANGED fnVars

\* A statement of a search throws.
SearchFails(p) ==
  /\ qry' = [qry EXCEPT ![p].reads = @ + 1, ![p].failed = TRUE,
                        ![p].result = QueryCatch(qry[p].mode)]
  /\ pc' = [pc EXCEPT ![p] = "qDone"]
  /\ UNCHANGED graphVars

\* community -> number of Entity nodes carrying it
CommunityListing(c) ==
  [l \in Communities(c) |-> Cardinality({n \in DOMAIN c : n[1] = "Entity" /\ c[n] = l})]

\* globalSearch: the communities statement; without a key or without
\* communities the listing is returned.
GlobalCommunities(p) ==
  /\ pc[p] = "gCommunities"
  /\ \/ SearchFails(p)
     \/ /\ SearchStatement
        /\ \E key \in BOOLEAN :
             IF key /\ Communities(community) # {}
             THEN /\ qry' = [qry EXCEPT ![p].reads = @ + 1,
                                        ![p].listing = CommunityListing(community)]
                  /\ pc' = [pc EXCEPT ![p] = "gSummarize"]
             ELSE /\ qry' = [qry EXCEPT ![p].reads = @ + 1,
                                        ![p].llm = IF key THEN "notCalled" ELSE "absent",
                                        ![p].listing = CommunityListing(community),
                                        ![p].result = "listing"]
                  /\ pc' = [pc EXCEPT ![p] = "qDone"]
  /\ UNCHANGED <<clock, batch, clearOpt, isFirstItem, cur, totalSize, started, clears,
                 completed, run>>
  /\ UNCHANGED fnVars

\* globalSearch: axios.post to the summarization service, inside the same try
\* block as the statement: a failure ends in the catch block.
GlobalSummarize(p) ==
  /\ pc[p] = "gSummarize"
  /\ \/ qry' = [qry EXCEPT ![p].llm = "answered", ![p].result = "prose"]
     \/ qry' = [qry EXCEPT ![p].llm = "failed", ![p].result = QueryCatch("global")]
  /\ pc' = [pc EXCEPT ![p] = "qDone"]
  /\ UNCHANGED <<graphVars, clock, batch, clearOpt, isFirstItem, cur, totalSize, started,
                 clears, completed, run>>
  /\ UNCHANGED fnVars

\* localSearch: the entity statement.
LocalEntities(p) ==
  /\ pc[p] = "lEntities"
  /\ \/ SearchFails(p)
     \/ /\ SearchStatement
        /\ LET found == EntityMatches(KeyTerms(qry[p].question)) IN
             /\ qry' = [qry EXCEPT ![p].reads = @ + 1, ![p].found = found]
             /\ pc' = [pc EXCEPT ![p] = IF found = {} THEN "lConcepts" ELSE "lDocs"]
  /\ UNCHANGED <<clock, batch, clearOpt, isFirstItem, cur, totalSize, started, clears,
                 completed, run>>
  /\ UNCHANGED fnVars

\* The same search giving up once no entity matched.
NoConceptFallback(relevantConcepts) == "noMatch"

\* if (relevantConcepts.length === 0) return 'No relevant concepts or
\* entities found ...'; otherwise the concepts are used as the entities.
ConceptFallback(relevantConcepts) ==
  IF relevantConcepts = {} THEN "noMatch" ELSE "useConcepts"

\* localSearch: the concept statement, when no entity matched.
LocalConcepts(p) ==
  /\ pc[p] = "lConcepts"
  /\ \/ SearchFails(p)
     \/ /\ SearchStatement
        /\ LET found == ConceptMatches(KeyTerms(qry[p].question)) IN
             IF ConceptFallback(found) = "noMatch"
             THEN /\ qry' = [qry EXCEPT ![p].reads = @ + 1, ![p].result = "noMatch"]
                  /\ pc' = [pc EXCEPT ![p] = "qDone"]
             ELSE /\ qry' = [qry EXCEPT ![p].reads = @ + 1, ![p].found = found]
                  /\ pc' = [pc EXCEPT ![p] = "lDocs"]
  /\ UNCHANGED <<clock, batch, clearOpt, isFirstItem, cur, totalSize, started, clears,
                 completed, run>>
  /\ UNCHANGED fnVars

\* localSearch: the document statement and the answer built from it.
LocalDocuments(p) ==
  /\ pc[p] = "lDocs"
  /\ \/ SearchFails(p)
     \/ /\ SearchStatement
        /\ qry' = [qry EXCEPT ![p].reads = @ + 1, ![p].result = "answer"]
        /\ pc' = [pc EXCEPT ![p] = "qDone"]
  /\ UNCHANGED <<clock, batch, clearOpt, isFirstItem, cur, totalSize, started, clears,
                 completed, run>>
  /\ UNCHANGED fnVars

\* The query command prints the answer and ends.
QueryEnd(p) ==
  /\ pc[p] = "qDone"
  /\ qry[p].op \in {"query", "cliQuery"}
  /\ pc' = [pc EXCEPT ![p] = "idle"]
  /\ qry' = [qry EXCEPT ![p] = NoQry]
  /\ UNCHANGED <<graphVars, clock, batch, clearOpt, isFirstItem, cur, totalSize, started,
                 clears, completed, run>>
  /\ UNCHANGED fnVars

(***************************************************************************)
(* unnamed/part_002: KnowledgeGraphCLI.queryGraph.                         *)
(***************************************************************************)
\* queryGraph(question): the words are filtered by length only and the
\* concept statement is sent whatever is left.
CliQueryStart(p) ==
  /\ Free(p)
  /\ \E q \in Questions :
       qry' = [qry EXCEPT ![p] = [NoQry EXCEPT !.op = "cliQuery", !.question = q,
                                               !.mode = "local"]]
  /\ pc' = [pc EXCEPT ![p] = "cConcepts"]
  /\ UNCHANGED <<graphVars, clock, batch, clearOpt, isFirstItem, cur, totalSize, started,
                 clears, completed, run>>
  /\ UNCHANGED fnVars

CliQueryConcepts(p) ==
  /\ pc[p] = "cConcepts"
  /\ \/ SearchFails(p)
     \/ /\ SearchStatement
        /\ LET found == CliConceptMatches(QueryWords(qry[p].question)) IN
             IF found = {}
             THEN /\ qry' = [qry EXCEPT ![p].reads = @ + 1, ![p].result = "noMatch"]
                  /\ pc' = [pc EXCEPT ![p] = "qDone"]
             ELSE /\ qry' = [qry EXCEPT ![p].reads = @ + 1, ![p].found = found]
                  /\ pc' = [pc EXCEPT ![p] = "cDocs"]
  /\ UNCHANGED <<clock, batch, clearOpt, isFirstItem, cur, totalSize, started, clears,
                 completed, run>>
  /\ UNCHANGED fnVars

CliQueryDocuments(p) ==
  /\ pc[p] = "cDocs"
  /\ \/ SearchFails(p)
     \/ /\ SearchStatement
        /\ qry' = [qry EXCEPT ![p].reads = @ + 1,
                              ![p].result = IF DocumentsOf(qry[p].found) = {}
                                            THEN "noDocuments" ELSE "answer"]
        /\ pc' = [pc EXCEPT ![p] = "qDone"]
  /\ UNCHANGED <<clock, batch, clearOpt, isFirstItem, cur, totalSize, started, clears,
                 completed, run>>
  /\ UNCHANGED fnVars

\* What the commands of SpecQuery ingest: one source per command.
QueryInputs ==
  [procs |-> {1},
   file |-> [entities : ServerLists, relationships : {<<>>}, reply : {"noKey"}]
              \cup ServerReplies,
   url |-> [entities : ServerLists, relationships : {<<>>}, reply : {"none"}],
   batches |-> 1]

NextQuery ==
  \E p \in {1} :
    \/ Step(p, QueryInputs)
    \/ DetectStart(p)
    \/ DetectPrimary(p)
    \/ DetectFallback(p)
    \/ DetectCount(p)
    \/ DetectEnd(p)
    \/ QueryStart(p)
    \/ GlobalCommunities(p)
    \/ GlobalSummarize(p)
    \/ LocalEntities(p)
    \/ LocalConcepts(p)
    \/ LocalDocuments(p)
    \/ QueryEnd(p)
    \/ CliQueryStart(p)
    \/ CliQueryConcepts(p)
    \/ CliQueryDocuments(p)
    \/ GetStats(p)
    \/ StatsEnd(p)

SpecQuery == Init /\ [][NextQuery]_vars

(***************************************************************************)
(* extractConcepts of knowledge-graph.js and of unnamed/part_002.          *)
(***************************************************************************)
MaxTokens == 6      \* tokens of one text

\* The tokens texts are made of (lower case, no punctuation).
Tokens == {"graph", "graphs", "node", "the", "1990s", "2024"}
Texts == SeqsUpTo(Tokens, MaxTokens)

Digits == {"0", "1", "2", "3", "4", "5", "6", "7", "8", "9"}
\* /^\d+$/.test(token)
AllDigits(w) == Len(w) > 0 /\ \A i \in 1..Len(w) : CharAt(w, i) \in Digits
\* /^\d/.test(phrase)
DigitFirst(w) == Len(w) > 0 /\ CharAt(w, 1) \in Digits

\* The number a string of digits denotes.
RECURSIVE NumberOf(_)
NumberOf(w) ==
  IF Len(w) = 0 THEN 0
  ELSE 10 * NumberOf(SubSeq(w, 1, Len(w) - 1))
         + (CHOOSE d \in 0..9 : ToString(d) = LastChar(w))

\* A property key that is an integer index: a canonical numeric string.
IsIndex(k) == AllDigits(k) /\ (Len(k) = 1 \/ CharAt(k, 1) # "0")

Elements(s) == {s[i] : i \in 1..Len(s)}
FirstIndex(s, k) == CHOOSE i \in 1..Len(s) : s[i] = k /\ \A j \in 1..(i - 1) : s[j] # k
CountIn(s, k) == Cardinality({i \in 1..Len(s) : s[i] = k})

\* Object.entries(obj) of an object filled key by key in the order of s: the
\* integer indices in ascending numeric order, then the other keys in the
\* order of their first assignment.
EntriesBefore(s, x, y) ==
  IF IsIndex(x) /\ IsIndex(y) THEN NumberOf(x) < NumberOf(y)
  ELSE IF IsIndex(x) # IsIndex(y) THEN IsIndex(x)
  ELSE FirstIndex(s, x) < FirstIndex(s, y)

ObjectEntries(s) ==
  LET K == Elements(s)
  IN  [i \in 1..Cardinality(K) |->
         CHOOSE x \in K : Cardinality({y \in K : EntriesBefore(s, y, x)}) = i - 1]

\* entries.sort((a, b) => b[1] - a[1]): descending count, stable.
SortByCount(entries, s) ==
  LET before(i, j) == \/ CountIn(s, entries[i]) > CountIn(s, entries[j])
                      \/ (CountIn(s, entries[i]) = CountIn(s, entries[j]) /\ i < j)
  IN  [k \in 1..Len(entries) |->
         entries[CHOOSE i \in 1..Len(entries) :
                   Cardinality({j \in 1..Len(entries) : before(j, i)}) = k - 1]]

\* .slice(0, n)
Slice(s, n) == SubSeq(s, 1, IF Len(s) < n THEN Len(s) ELSE n)

\* knowledge-graph.js: tokens longer than 2, not all digits, no stop-word;
\* each counted under its stem.
Stems(t) ==
  LET kept == SelectSeq(t, LAMBDA w : Len(w) > 2 /\ ~AllDigits(w) /\ w \notin StopWords)
  IN  [i \in 1..Len(kept) |-> Stem(kept[i])]

extractConcepts(t) ==
  LET wordFreq == Stems(t)
      meaningful == SelectSeq(ObjectEntries(wordFreq),
                              LAMBDA w : CountIn(wordFreq, w) > 1 \/ Len(w) > 4)
      top == Slice(SortByCount(meaningful, wordFreq), 50)
  IN  [i \in 1..Len(top) |-> [name |-> top[i], frequency |-> CountIn(wordFreq, top[i])]]

\* part_002: the stop words, as far as the tokens above go.
stopWords == {"the"}

\* part_002: words longer than 3 that are no stop words.
CliWords(t) == SelectSeq(t, LAMBDA w : Len(w) > 3 /\ w \notin stopWords)

\* part_002: the pairs of adjacent words of a sentence, longer than 8, free
\* of stop words and not starting with a digit.
CliPhrases(t) ==
  LET pairs == [i \in 1..(Len(t) - 1) |-> t[i] \o " " \o t[i + 1]]
      ok == {i \in 1..(Len(t) - 1) :
               /\ Len(pairs[i]) > 8
               /\ t[i] \notin stopWords /\ t[i + 1] \notin stopWords
               /\ ~DigitFirst(pairs[i])}
      pick[i \in 0..(Len(t) - 1)] ==
        IF i = 0 THEN <<>>
        ELSE IF i \in ok THEN Append(pick[i - 1], pairs[i]) ELSE pick[i - 1]
  IN  IF Len(t) < 2 THEN <<>> ELSE pick[Len(t) - 1]

\* Object.entries(frequency).filter(count >= 2).sort(...).slice(0, n).map(name)
CliTop(counted, n) ==
  Slice(SortByCount(SelectSeq(ObjectEntries(counted), LAMBDA w : CountIn(counted, w) >= 2),
                    counted), n)

\* part_002: allConcepts = [...singleWordConcepts, ...phraseConcepts]
CliExtractConcepts(t) == CliTop(CliWords(t), 15) \o CliTop(CliPhrases(t), 10)

\* kg.extractConcepts(content)
ExtractConcepts ==
  /\ concepts.by = "none"
  /\ concepts' = [by |-> "extractConcepts", list |-> extractConcepts(text)]
  /\ UNCHANGED <<storeVars, text, excerptVars, rankVars>>

\* this.extractConcepts(content, name) of KnowledgeGraphCLI
ExtractConceptsCLI ==
  /\ concepts.by = "none"
  /\ concepts' = [by |-> "KnowledgeGraphCLI.extractConcepts",
                  list |-> CliExtractConcepts(text)]
  /\ UNCHANGED <<storeVars, text, excerptVars, rankVars>>

InitExtract ==
  /\ InitStore
  /\ text \in Texts
  /\ concepts = NoConcepts
  /\ NoExcerpt
  /\ NoRanking

NextExtract == ExtractConcepts \/ ExtractConceptsCLI
SpecExtract == InitExtract /\ [][NextExtract]_vars

(***************************************************************************)
(* unnamed/part_002 queryGraph: the excerpt.                               *)
(***************************************************************************)
MaxSentences == 3   \* sentences of the documents found

\* A sentence of a document: its length once trimmed, the number of words of
\* the question it includes and the number of matched concept names it
\* includes.
SentenceLengths == {20, 21, 30, 31}
Sentences == [length : SentenceLengths, words : 0..2, names : 0..1]

\* queryWords.forEach(... score += 2); relevantConcepts.forEach(... score += 1)
RawScore(s) == 2 * s.words + s.names

\* if (score > 2) score *= 1.5, in halves
Score2(s) == IF RawScore(s) > 2 THEN 3 * RawScore(s) ELSE 2 * RawScore(s)

\* content.split(/[.!?]+/).filter(s => s.trim().length > 20)
Scored(s) == s.length > 20

\* if (score > bestScore && sentence.trim().length > 30)
Better(s, bestScore) == Score2(s) > bestScore /\ s.length > 30

\* sentences.forEach: bestScore and bestAnswer after the sentences of ss.
RECURSIVE Best(_)
Best(ss) ==
  IF ss = <<>> THEN [NoAnswer EXCEPT !.done = TRUE]
  ELSE LET before == Best(SubSeq(ss, 1, Len(ss) - 1))
           s == ss[Len(ss)]
       IN  IF Scored(s) /\ Better(s, before.score)
           THEN [done |-> TRUE, index |-> Len(ss), score |-> Score2(s)]
           ELSE before

\* queryGraph, from the records of the document statement to the answer.
ExtractAnswer ==
  /\ ~bestAnswer.done
  /\ bestAnswer' = Best(sentences)
  /\ UNCHANGED <<storeVars, sentences, extractVars, rankVars>>

InitExcerpt ==
  /\ InitStore
  /\ sentences \in SeqsUpTo(Sentences, MaxSentences)
  /\ bestAnswer = NoAnswer
  /\ NoExtract
  /\ NoRanking

NextExcerpt == ExtractAnswer
SpecExcerpt == InitExcerpt /\ [][NextExcerpt]_vars

(***************************************************************************)
(* localSearch / queryGraph: the document statement.                       *)
(***************************************************************************)
MaxDocs == 6        \* documents linked to the matched nodes

\* The files ingested, each any number of times: name, content and type of
\* the Document nodes of one file are the same, and so is the sum of the
\* weights of their CONTAINS edges to the matched nodes.
Files == {[name |-> "x", relevance |-> 1], [name |-> "y", relevance |-> 2],
          [name |-> "z", relevance |-> 3]}

\* The records ordered by descending relevance (as read, where equal).
OrderByRelevance(recs) ==
  LET before(i, j) == \/ recs[i].relevance > recs[j].relevance
                      \/ (recs[i].relevance = recs[j].relevance /\ i < j)
  IN  [k \in 1..Len(recs) |->
         recs[CHOOSE i \in 1..Len(recs) :
                Cardinality({j \in 1..Len(recs) : before(j, i)}) = k - 1]]

\* RETURN d.name, d.content, d.type, COLLECT(n.name), SUM(r.frequency):
\* one record per value of (d.name, d.content, d.type).
GroupByName(m) ==
  LET names == ObjectEntries([i \in 1..Len(m) |-> m[i].name])
      of(n) == {i \in 1..Len(m) : m[i].name = n}
      sum(n) == LET r(i) == m[i].relevance
                    g[T \in SUBSET of(n)] ==
                      IF T = {} THEN 0
                      ELSE LET x == CHOOSE y \in T : TRUE IN r(x) + g[T \ {x}]
                IN  g[of(n)]
  IN  [k \in 1..Len(names) |->
         [name |-> names[k], relevance |-> sum(names[k]), documents |-> of(names[k])]]

\* WITH d, COUNT(c) as conceptCount, COLLECT(c.name): one record per node d.
GroupByNode(m) ==
  [k \in 1..Len(m) |->
     [name |-> m[k].name, relevance |-> m[k].relevance, documents |-> {k}]]

\* localSearch: docQuery ... ORDER BY relevance DESC LIMIT 5
docQuery(m) == Slice(OrderByRelevance(GroupByName(m)), 5)

\* part_002: docQuery ... ORDER BY conceptCount DESC LIMIT 5
CliDocQuery(m) == Slice(OrderByRelevance(GroupByNode(m)), 5)

DocStatement ==
  /\ rows.by = "none"
  /\ rows' = [by |-> "localSearch", list |-> docQuery(matches)]
  /\ UNCHANGED <<storeVars, matches, extractVars, excerptVars>>

CliDocStatement ==
  /\ rows.by = "none"
  /\ rows' = [by |-> "KnowledgeGraphCLI.queryGraph", list |-> CliDocQuery(matches)]
  /\ UNCHANGED <<storeVars, matches, extractVars, excerptVars>>

InitRank ==
  /\ InitStore
  /\ matches \in SeqsUpTo(Files, MaxDocs)
  /\ rows = NoRows
  /\ NoExtract
  /\ NoExcerpt

NextRank == DocStatement \/ CliDocStatement
SpecRank == InitRank /\ [][NextRank]_vars

(***************************************************************************)
(* Quantities the properties speak of.                                     *)
(***************************************************************************)
SumOver(S, f(_)) ==
  LET g[T \in SUBSET S] ==
        IF T = {} THEN 0
        ELSE LET x == CHOOSE y \in T : TRUE IN f(x) + g[T \ {x}]
  IN  g[S]

\* The occurrence count of a name in one document's extraction.
OccIn(list, n) ==
  LET count(i) == IF list[i].name = n THEN FrequencyOr1(list[i].frequency) ELSE 0
  IN  SumOver(1..Len(list), count)

\* The same, summed over the documents of the graph.
OccInGraph(n) ==
  LET count(d) == OccIn(docs[d].content, n) IN SumOver(DOMAIN docs, count)

NodesNamed(n) == {k \in DOMAIN freq : k[2] = n}
RelatedNamed(x, y) ==
  {e \in DOMAIN rels : e[3] = "RELATED_TO" /\ {e[1][2], e[2][2]} = {x, y}}

\* Every document of the graph is one whose ingestion returned success, and
\* no ingestion is under way.
OnlySuccessfulIngestions ==
  /\ DOMAIN docs \subseteq completed
  /\ \A p \in Procs : pc[p] \in {"idle", "next", "clearCmd"}

(***************************************************************************)
(* C1  After successful ingestions there is one node per canonical name    *)
(* and its frequency is the sum, over the ingested documents, of the       *)
(* name's occurrence count in the document's extraction.                   *)
(***************************************************************************)
C1_FrequencyIsSumOfOccurrences ==
  OnlySuccessfulIngestions =>
    \A n \in Names :
      IF OccInGraph(n) = 0 THEN NodesNamed(n) = {}
      ELSE /\ Cardinality(NodesNamed(n)) = 1
           /\ \A k \in NodesNamed(n) : freq[k] = OccInGraph(n)

(***************************************************************************)
(* C2  Two ingestions sharing concepts that run concurrently lose no       *)
(* increment: once both have completed, each shared concept is one node    *)
(* whose frequency is the sum of the two ingestions' increments, and each  *)
(* shared pair has one RELATED_TO edge whose weight is the sum of the two  *)
(* weight increments.                                                      *)
(***************************************************************************)
FrequencyOf(list, n) ==
  (CHOOSE e \in {list[i] : i \in 1..Len(list)} : e.name = n).frequency
NamesOf(list) == {list[i].name : i \in 1..Len(list)}

C2_NoLostIncrement ==
  \A p, q \in Procs :
    ( /\ p # q
      /\ pc[p] = "succeeded" /\ pc[q] = "succeeded"
      /\ cur[p].overlapped \/ cur[q].overlapped
      /\ ~cur[p].clear /\ ~cur[q].clear /\ clears = 0
      /\ cur[p].relationships = <<>> /\ cur[q].relationships = <<>> )
    => LET shared == NamesOf(cur[p].entities) \cap NamesOf(cur[q].entities) IN
       /\ \A n \in shared :
            /\ Cardinality(NodesNamed(n)) = 1
            /\ \A k \in NodesNamed(n) :
                 freq[k] = OccIn(cur[p].entities, n) + OccIn(cur[q].entities, n)
       /\ \A x, y \in shared :
            x # y =>
              /\ Cardinality(RelatedNamed(x, y)) = 1
              /\ \A e \in RelatedNamed(x, y) :
                   rels[e].weight =
                     PairWeight(FrequencyOf(cur[p].entities, x), FrequencyOf(cur[p].entities, y))
                       + PairWeight(FrequencyOf(cur[q].entities, x),
                                    FrequencyOf(cur[q].entities, y))

(***************************************************************************)
(* C3  After a successful ingestion whose extraction carried no explicit   *)
(* relationships, a RELATED_TO edge joins every pair of distinct           *)
(* candidates of the document.                                             *)
(***************************************************************************)
C3_EveryPairRelated ==
  \A p \in Procs :
    (pc[p] = "succeeded" /\ cur[p].relationships = <<>>) =>
      \A x, y \in NamesOf(cur[p].entities) :
        x # y => RelatedBetween(rels, Node(p, x), Node(p, y)) # {}

(***************************************************************************)
(* C4  At most one RELATED_TO edge joins any unordered pair of nodes.      *)
(***************************************************************************)
C4_OneRelatedEdgePerPair ==
  \A x, y \in DOMAIN freq : Cardinality(RelatedBetween(rels, x, y)) <= 1

(***************************************************************************)
(* C5  At most one CONTAINS edge joins a document and a node.              *)
(***************************************************************************)
C5_OneContainsEdgePerPair ==
  \A k \in DOMAIN contains : Len(contains[k]) <= 1

(***************************************************************************)
(* C6  The weight of every CONTAINS edge is the number of occurrences of   *)
(* the concept in the document.                                            *)
(***************************************************************************)
C6_ContainsWeightIsLocalFrequency ==
  \A k \in DOMAIN contains :
    \A i \in 1..Len(contains[k]) :
      k[1] \in DOMAIN docs => contains[k][i] = OccIn(docs[k[1]].content, k[2][2])

(***************************************************************************)
(* C7  From one state to the next no frequency of an existing node and no  *)
(* weight of an existing RELATED_TO edge decreases: the new value is at    *)
(* least the old one.                                                      *)
(***************************************************************************)
\* A stored number has not decreased: it is what it was, or both values are
\* numbers and the new one is at least the old one (NaN >= w is false).
AtLeast(x, y) == x = y \/ (x # NaN /\ y # NaN /\ x >= y)

C7_Monotonic ==
  [][ /\ \A n \in DOMAIN freq \cap DOMAIN freq' : AtLeast(freq'[n], freq[n])
      /\ \A e \in DOMAIN rels \cap DOMAIN rels' :
           e[3] = "RELATED_TO" => AtLeast(rels'[e].weight, rels[e].weight) ]_vars

(***************************************************************************)
(* C8  The sizes of the documents stored in the graph never add up to more *)
(* than the configured ceiling.                                            *)
(***************************************************************************)
CorpusSize == LET size(d) == docs[d].size IN SumOver(DOMAIN docs, size)

C8_CorpusWithinCeiling == CorpusSize <= maxSize

(***************************************************************************)
(* C9  An ingestion rejected for its size has sent no statement to the     *)
(* store, also when a clear was asked for with it, and no document over    *)
(* the ceiling is stored.                                                  *)
(***************************************************************************)
C9_RejectedLeavesGraphUnchanged ==
  /\ \A p \in Procs : pc[p] = "rejected" => (~cur[p].wrote /\ cur[p].size > maxFileSize)
  /\ \A d \in DOMAIN docs : docs[d].size <= maxFileSize

C9_Witness ==
  \E p \in Procs : pc[p] = "rejected" /\ cur[p].clear /\ DOMAIN freq # {} /\ DOMAIN docs # {}

(***************************************************************************)
(* C10  A clear never takes effect between two storage steps of another    *)
(* process's ingestion: no step of a clear empties the graph while another *)
(* process has created its Document and has statements left to send.       *)
(***************************************************************************)
ClearTakesEffect(p) ==
  /\ pc[p] \in {"clear", "clearCmd"}
  /\ pc'[p] # pc[p]
  /\ docs # EmptyFn
  /\ docs' = EmptyFn

\* The positions between the first and the last statement of an ingestion.
Midway == InFlight \ {"clear", "createDoc"}

C10_ClearIsExclusive ==
  [][\A p \in Procs :
       ClearTakesEffect(p) => \A q \in Procs \ {p} : pc[q] \notin Midway]_vars

(***************************************************************************)
(* C11  In an ingest command with several sources every source is          *)
(* attempted exactly once and in order, whatever the outcome of the        *)
(* sources before it: the sources attempted so far followed by those still *)
(* to come are the command's sources, every attempt that has returned has  *)
(* its outcome counted, and the command ends only when none is left.       *)
(***************************************************************************)
ItemUnderWay(p) == pc[p] \in InFlight \cup {"succeeded", "failed", "rejected"}

C11_EverySourceAttempted ==
  \A p \in Procs :
    /\ run[p].attempted \o batch[p] = run[p].sources
    /\ Len(run[p].outcomes) =
         (IF ItemUnderWay(p) THEN Len(run[p].attempted) - 1 ELSE Len(run[p].attempted))
    /\ pc[p] = "idle" => batch[p] = <<>>

C11_Witness ==
  \E p \in Procs :
    /\ pc[p] = "succeeded"
    /\ Len(run[p].sources) = 2
    /\ run[p].outcomes \in {<<"failed">>, <<"rejected">>}
    /\ cur[p].wrote

(***************************************************************************)
(* C13  When the enrichment call is not made (no API key) or fails, by     *)
(* throwing or by returning a reply without a usable entity list, the file *)
(* ingestion that has come to its end has succeeded and has stored the     *)
(* deterministic extractor's candidates.                                   *)
(***************************************************************************)
C13_EnrichmentFailureFallsBack ==
  \A p \in Procs :
    ( /\ cur[p].kind = "file"
      /\ cur[p].reply \in {"noKey", "error", "unusable"}
      /\ pc[p] \in {"succeeded", "failed"} )
    => (pc[p] = "succeeded" /\ cur[p].entities \in ConceptLists)

(***************************************************************************)
(* C12  queryGraph never raises: no query ends by letting an error through *)
(* to its caller, and a query one of whose statements failed has ended     *)
(* with the error answer.                                                  *)
(***************************************************************************)
IsQuery(p) == qry[p].op \in {"query", "cliQuery"}

C12_QueryNeverRaises ==
  \A p \in Procs :
    IsQuery(p) =>
      /\ qry[p].result # "raised"
      /\ qry[p].failed => (pc[p] = "qDone" /\ qry[p].result = "error")

C12_Witness ==
  \E p \in Procs :
    /\ pc[p] = "qDone" /\ qry[p].op = "query"
    /\ qry[p].failed /\ qry[p].reads = 3 /\ qry[p].result = "error"

(***************************************************************************)
(* C14  A global search whose statement succeeded and whose summarization  *)
(* service is absent or failed answers with the listing of the community   *)
(* sizes and names of the graph.                                           *)
(***************************************************************************)
C14_GlobalFallbackListing ==
  \A p \in Procs :
    ( /\ pc[p] = "qDone" /\ qry[p].op = "query" /\ qry[p].mode = "global"
      /\ ~qry[p].failed
      /\ qry[p].llm \in {"absent", "failed"} )
    => (qry[p].result = "listing" /\ qry[p].listing = CommunityListing(community))

(***************************************************************************)
(* C15  With mode auto the search is global exactly when more global       *)
(* indicator words than local indicator words occur as words of the        *)
(* question, and local otherwise.                                          *)
(***************************************************************************)
\* The indicators that are words of the question.
WordScore(indicators, q) ==
  Cardinality({i \in indicators : \E k \in 1..Len(q) : q[k] = i})

C15_AutoModeByIndicatorWords ==
  \A p \in Procs :
    (qry[p].op = "query" /\ qry[p].asked = "auto") =>
      (qry[p].mode = "global"
         <=> WordScore(globalIndicators, qry[p].question)
               > WordScore(localIndicators, qry[p].question))

(***************************************************************************)
(* C16  A local search whose question holds only stop-words or words of at *)
(* most two letters sends no statement to the store and answers with the   *)
(* request for a more specific question.                                   *)
(***************************************************************************)
C16_NoTermsNoSearch ==
  \A p \in Procs :
    (IsQuery(p) /\ qry[p].mode = "local" /\ KeyTerms(qry[p].question) = <<>>) =>
      /\ qry[p].reads = 0
      /\ pc[p] = "qDone" => qry[p].result = "moreSpecific"

(***************************************************************************)
(* C17  When detectCommunities has returned, every Concept node and every  *)
(* Entity node of the graph carries a community label.                     *)
(***************************************************************************)
Returned(p) == pc[p] = "dDone" /\ qry[p].op = "detect" /\ qry[p].result = "returned"

C17_EveryNodeLabelled ==
  \A p \in Procs : Returned(p) => \A n \in DOMAIN freq : n \in DOMAIN community

(***************************************************************************)
(* C18  detectCommunities called twice with no change of the graph in      *)
(* between: the second call returns the count of the first and leaves the  *)
(* labels the first left.  As stated, for any two calls; as amended, for   *)
(* two calls that took the same path (both the gds statement, or both the  *)
(* type buckets).                                                          *)
(***************************************************************************)
SecondRun(p) == Returned(p) /\ qry[p].prev # NoPrev

C19_LabelsAreComponents ==
  \A p \in Procs :
    (Returned(p) /\ qry[p].path = "primary") =>
      /\ \A x, y \in DOMAIN freq :
           (y \in Component(DOMAIN freq, x))
             <=> (/\ x \in DOMAIN community
                  /\ y \in DOMAIN community
                  /\ community[x] = community[y])
      /\ qry[p].count = Cardinality({Component(DOMAIN freq, x) : x \in DOMAIN freq})

(***************************************************************************)
(* C20  Queries are read-only: no step of a query, from its call to its    *)
(* return and whatever its mode and its result, changes a node, an edge, a *)
(* frequency, a weight, a type or a community label.                       *)
(***************************************************************************)
C20_QueriesReadOnly ==
  [][\A p \in Procs :
       (IsQuery(p) \/ qry'[p].op \in {"query", "cliQuery"}) => UNCHANGED graphVars]_vars

C20_Witness ==
  \E p \in Procs :
    /\ pc[p] = "qDone" /\ IsQuery(p)
    /\ qry[p].result = "answer" /\ qry[p].reads >= 2
    /\ DOMAIN community # {} /\ DOMAIN contains # {}

(***************************************************************************)
(* C21  Any two ingestions get distinct Document identifiers, also for the *)
(* same file name or URL within one reading of the clock: no ingestion     *)
(* ends because the identifier it made is the identifier of a document     *)
(* already stored.                                                         *)
(***************************************************************************)
C21_DistinctDocumentIds == \A p \in Procs : ~cur[p].collided

(***************************************************************************)
(* C22  An ingest command run with --clear clears the graph exactly once   *)
(* and before it writes a document, whatever the outcome of its sources:   *)
(* it never sends a second clear, it stores no document before the clear,  *)
(* and when its last source has returned (none of its statements having    *)
(* failed) the graph holds only the documents this command stored.         *)
(***************************************************************************)
\* The last source of p's command has returned; every source so far was
\* stored or turned away for its size.
LastSourceReturned(p) ==
  /\ pc[p] \in {"succeeded", "rejected"}
  /\ batch[p] = <<>>
  /\ \A i \in 1..Len(run[p].outcomes) : run[p].outcomes[i] \in {"succeeded", "rejected"}

C22_ClearOnceBeforeBatch ==
  \A p \in Procs :
    (clearOpt[p] /\ run[p].sources # <<>>) =>
      /\ run[p].cleared <= 1
      /\ run[p].stored # {} => run[p].cleared = 1
      /\ LastSourceReturned(p) => DOMAIN docs \subseteq run[p].stored

(***************************************************************************)
(* C23  For every text the result of the extractor holds each name once,   *)
(* is ordered by non-increasing frequency with equal frequencies in the    *)
(* order of first occurrence, has at most the cap number of entries (50;   *)
(* 15 words and 10 phrases in part_002), holds a name only if its          *)
(* frequency is above 1 or its length above 4, and is empty when no token  *)
(* survives.                                                               *)
(***************************************************************************)
\* The names of a result, with the frequency the extractor counted for each
\* and the place of its first occurrence in the text.
ResultNames ==
  IF concepts.by = "extractConcepts"
  THEN [i \in 1..Len(concepts.list) |-> concepts.list[i].name]
  ELSE concepts.list

IsPhrase(n) == \E i \in 1..Len(n) : CharAt(n, i) = " "

FrequencyIn(n) ==
  IF concepts.by = "extractConcepts" THEN CountIn(Stems(text), n)
  ELSE IF IsPhrase(n) THEN CountIn(CliPhrases(text), n)
  ELSE CountIn(CliWords(text), n)

FirstOccurrence(n) ==
  IF concepts.by = "extractConcepts"
  THEN FirstIndex([i \in 1..Len(text) |-> Stem(text[i])], n)
  ELSE IF IsPhrase(n)
  THEN FirstIndex([i \in 1..(Len(text) - 1) |-> text[i] \o " " \o text[i + 1]], n)
  ELSE FirstIndex(text, n)

C23_ExtractorResult ==
  concepts.by # "none" =>
    LET names == ResultNames IN
    /\ \A i, j \in 1..Len(names) : i # j => names[i] # names[j]
    /\ \A i, j \in 1..Len(names) :
         i < j => \/ FrequencyIn(names[i]) > FrequencyIn(names[j])
                  \/ /\ FrequencyIn(names[i]) = FrequencyIn(names[j])
                     /\ IsPhrase(names[i]) = IsPhrase(names[j]) =>
                          FirstOccurrence(names[i]) < FirstOccurrence(names[j])
    /\ Len(names) <= (IF concepts.by = "extractConcepts" THEN 50 ELSE 25)
    /\ \A i \in 1..Len(names) : FrequencyIn(names[i]) > 1 \/ Len(names[i]) > 4
    /\ concepts.by = "extractConcepts" =>
         \A i \in 1..Len(names) : concepts.list[i].frequency = FrequencyIn(names[i])
    /\ (Stems(text) = <<>> /\ concepts.by = "extractConcepts") => names = <<>>
    /\ (CliWords(text) = <<>> /\ concepts.by # "extractConcepts") => names = <<>>

(***************************************************************************)
(* C24  The excerpt returned is the sentence with the highest score among  *)
(* the sentences of the documents found that are at least 30 characters    *)
(* long, a sentence of exactly 30 characters included (score: 2 for each   *)
(* word of the question, 1 for each matched concept name, times 1.5 above  *)
(* 2); when no sentence is eligible the answer names the concepts.         *)
(***************************************************************************)
\* The sentences that can be the excerpt: 30 characters or more, and a score.
Eligible == {i \in 1..Len(sentences) : sentences[i].length >= 30 /\ Score2(sentences[i]) > 0}

C24_BestExcerpt ==
  bestAnswer.done =>
    IF Eligible = {} THEN bestAnswer.index = 0
    ELSE /\ bestAnswer.index \in Eligible
         /\ \A j \in Eligible : Score2(sentences[j]) <= Score2(sentences[bestAnswer.index])

(***************************************************************************)
(* C25  The document statement of a local search returns at most 5         *)
(* documents in non-increasing order of relevance, the relevance of a      *)
(* document being the sum of the weights of its CONTAINS edges to the      *)
(* matched nodes, and leaves out no document more relevant than one it     *)
(* returns.                                                                *)
(***************************************************************************)
\* The documents the records of the result stand for.
Returned5 == UNION {rows.list[k].documents : k \in 1..Len(rows.list)}

C25_TopDocumentsByRelevance ==
  rows.by # "none" =>
    /\ Len(rows.list) <= 5
    /\ \A i, j \in 1..Len(rows.list) :
         i < j => \A d \in rows.list[i].documents, e \in rows.list[j].documents :
                    matches[d].relevance >= matches[e].relevance
    /\ \A d \in Returned5, e \in (1..Len(matches)) \ Returned5 :
         matches[d].relevance >= matches[e].relevance

(***************************************************************************)
(* C26  A local search of knowledge-graph.js answers no-match only when    *)
(* neither an Entity nor a Concept matches its key terms: when no Entity   *)
(* matches and a Concept name contains a key term, the search goes on with *)
(* the matched Concepts through the document statement to the answer.      *)
(***************************************************************************)
LocalSearchEnded(p) ==
  /\ pc[p] = "qDone" /\ qry[p].op = "query" /\ qry[p].mode = "local"
  /\ ~qry[p].failed /\ KeyTerms(qry[p].question) # <<>>

C26_ConceptFallbackBeforeNoMatch ==
  \A p \in Procs :
    LocalSearchEnded(p) =>
      LET terms == KeyTerms(qry[p].question) IN
      /\ qry[p].result = "noMatch" <=> (EntityMatches(terms) = {} /\ ConceptMatches(terms) = {})
      /\ (EntityMatches(terms) = {} /\ ConceptMatches(terms) # {}) =>
           /\ qry[p].result = "answer"
           /\ qry[p].found = ConceptMatches(terms)
           /\ qry[p].reads = 3

C26_Witness ==
  \E p \in Procs :
    /\ LocalSearchEnded(p)
    /\ EntityMatches(KeyTerms(qry[p].question)) = {}
    /\ qry[p].found # {} /\ qry[p].result = "answer" /\ qry[p].reads = 3

(***************************************************************************)
(* C27  The statements of one ingestion are sent in the order: Document    *)
(* node, then for each candidate its node and its CONTAINS edge, then the  *)
(* relationship merges; no relationship merge is sent before every         *)
(* candidate has been merged, and the ingestion has succeeded only with    *)
(* all of its statements sent, so the graph a later query reads holds the  *)
(* node and the CONTAINS edge of every candidate.                          *)
(***************************************************************************)
\* The statements an ingestion has sent, its clear left aside.
SentOf(p) == SelectSeq(cur[p].sent, LAMBDA k : k # "clear")
Sent(p, kind) == Cardinality({k \in 1..Len(SentOf(p)) : SentOf(p)[k] = kind})

\* The relationship merges a complete ingestion sends: one per explicit
\* relationship, or else one per pair of candidates.
RelatedDue(c) ==
  IF c.kind = "file" /\ Len(c.relationships) > 0 THEN Len(c.relationships)
  ELSE (Len(c.entities) * (Len(c.entities) - 1)) \div 2

C27_StorageStepsInOrder ==
  \A p \in Procs :
    LET s == SentOf(p) IN
    /\ s # <<>> => s[1] = "document"
    /\ \A k \in 1..Len(s) :
         /\ s[k] = "document" => k = 1
         /\ s[k] = "contains" => (k > 1 /\ s[k - 1] = "node")
         /\ s[k] = "node" => (k = Len(s) \/ s[k + 1] = "contains")
         /\ s[k] = "related" =>
              /\ Sent(p, "node") = Len(cur[p].entities)
              /\ Sent(p, "contains") = Len(cur[p].entities)
              /\ \A m \in k..Len(s) : s[m] = "related"
    /\ pc[p] = "succeeded" =>
         /\ Sent(p, "document") = 1
         /\ Sent(p, "node") = Len(cur[p].entities)
         /\ Sent(p, "contains") = Len(cur[p].entities)
         /\ Sent(p, "related") = RelatedDue(cur[p])
         /\ cur[p].docId \in DOMAIN docs
         /\ \A i \in 1..Len(cur[p].entities) :
              \E n \in NodesNamed(cur[p].entities[i].name) :
                <<cur[p].docId, n>> \in DOMAIN contains

C27_Witness ==
  \E p \in Procs :
    /\ pc[p] = "succeeded" /\ cur[p].kind = "url"
    /\ SentOf(p) = <<"document", "node", "contains", "node", "contains", "related">>
    /\ RelatedBetween(rels, Concept("a"), Concept("b")) # {}

(***************************************************************************)
(* C28  Whenever no ingestion is between two of its statements, also after *)
(* an ingestion that failed part-way, the frequency of every Concept and   *)
(* Entity node is the sum of the weights of the CONTAINS edges pointing to *)
(* it.                                                                     *)
(***************************************************************************)
\* The sum of the weights of the CONTAINS edges pointing to node n.
ContainsWeight(n) ==
  LET edges(k) == LET w(i) == contains[k][i] IN SumOver(1..Len(contains[k]), w)
  IN  SumOver({k \in DOMAIN contains : k[2] = n}, edges)

NoStatementPending ==
  \A p \in Procs : pc[p] \notin InFlight \cup {"cliCreateDoc", "cliConcept", "cliRelated"}

C28_FrequencyIsContainsWeight ==
  NoStatementPending => \A n \in DOMAIN freq : freq[n] = ContainsWeight(n)

(***************************************************************************)
(* C29  In the size-tracking CLI, whenever no call is under way, totalSize *)
(* is the sum of the sizes of the Document nodes of the graph that this    *)
(* process created: it has grown by a document's size once its Document    *)
(* node is stored, also when a later statement of processDocument failed,  *)
(* and it is 0 again once clearDatabase has deleted the graph.             *)
(***************************************************************************)
\* The sizes of the Document nodes of the graph created by process p.
StoredSize(p) ==
  LET size(d) == docs[d].size IN SumOver(DOMAIN docs \cap run[p].stored, size)

C29_TotalSizeIsStoredSize ==
  \A p \in {1} :
    pc[p] \in {"idle", "succeeded", "failed", "rejected"} => totalSize = StoredSize(p)

(***************************************************************************)
(* C30  The statistics report the contents of the graph: documents is the  *)
(* number of Document nodes, concepts the number of Concept nodes and      *)
(* relationships the number of relationship edges, each counted once (all  *)
(* edges, or those between Concept and Entity nodes), for every graph      *)
(* reached by ingestions and clears, the empty one included.               *)
(***************************************************************************)
C30_StatsAreCounts ==
  \A p \in Procs :
    qry[p].op \in {"stats", "cliStats"} =>
      /\ qry[p].stats.documents = Cardinality(DOMAIN docs)
      /\ qry[p].stats.concepts = Cardinality({n \in DOMAIN freq : n[1] = "Concept"})
      /\ qry[p].stats.relationships \in {Cardinality(Edges), Cardinality(DOMAIN rels)}

====
